---------------------------- MODULE Spec2Model ----------------------------
(***************************************************************************)
(* A model of src/app.py, the MathCraft normal-distribution dashboard.     *)
(*                                                                         *)
(* The script is a Streamlit page: every interaction with a widget re-runs *)
(* the whole script top to bottom with the widgets' current values.  The   *)
(* state of the program is therefore the widget state (the selectboxes and *)
(* the sliders) and what the last run computed and displayed.  One action  *)
(* of the model is one interaction followed by the whole re-run.           *)
(*                                                                         *)
(* Numbers.  The script computes in IEEE doubles; the model computes in    *)
(* fixed point on integers:                                                *)
(*   - a slider's value is an integer count of the slider's own step       *)
(*     (tenths for mu and sigma, hundredths of a millimetre for the bolt   *)
(*     sliders, units for the integer sliders);                            *)
(*   - a standard score z is an integer count of 1/ZScale (0.001);         *)
(*   - a probability is an integer count of 1/ProbScale (1e-9), and a      *)
(*     percentage (a probability times 100) an integer count of            *)
(*     1/PctScale (1e-7);                                                  *)
(*   - a density is an integer count of 1/DensScale (1e-8).                *)
(* scipy.stats.norm.cdf / pdf / ppf are modelled by tables of their values *)
(* rounded to that resolution (PhiTable, PdfTable), with their handling of *)
(* invalid arguments (NaN, +-infinity, no exception) kept as outcomes.     *)
(* Rounding errors of the doubles (about 1e-16) are below the resolution   *)
(* of the model and are not modelled.                                      *)
(***************************************************************************)
EXTENDS Integers, Sequences, FiniteSets, TLC

VARIABLES
    section,        \* the sidebar selectbox (line 19)
    problem_type,   \* the problem category selectbox (line 468)
    test_type,      \* the hypothesis test selectbox (line 765)
    w,              \* the values of the sliders, the checkbox and alpha
    clicked,        \* TRUE in the run that follows a click on "Show Answers"
    view,           \* what the last run of the script computed
    call,           \* the last direct evaluation of one of the formulas
    runs,           \* per caller, the run of the script its thread is executing
    figs,           \* pyplot's registry of open figures: figure number -> figure
    artists         \* what has been drawn on each figure

vars == << section, problem_type, test_type, w, clicked, view, call, runs, figs, artists >>

---------------------------------------------------------------------------
(* Bounds of the model. *)

\* A slider is moved to its default +- at most Reach steps, ...
Reach == 1
\* ... or to one of the Parts+1 evenly spaced marks from its minimum to its maximum.
Parts == 2
\* Direct evaluations of the formulas take arguments in -FnSpan..FnSpan.
FnSpan == 3
\* Each concurrent caller runs the script at most MaxRuns times.
MaxRuns == 1

---------------------------------------------------------------------------
(* Fixed-point scales. *)

ZScale == 10^3
\* A critical value is kept in 1/(ZScale * ZFine): it is compared unrounded.
ZFine == 10^3
ProbScale == 10^9
PctScale == ProbScale \div 100
DensScale == 10^8
Half == ProbScale \div 2
\* The probability literal n/100.
Hundredths(n) == n * (ProbScale \div 100)

Abs(a) == IF a < 0 THEN -a ELSE a

\* a / b rounded to the nearest integer (halves away from zero), b > 0.
RoundDiv(a, b) ==
    IF a >= 0 THEN (2 * a + b) \div (2 * b) ELSE -((2 * (-a) + b) \div (2 * b))

---------------------------------------------------------------------------
(* Floating-point results: a finite number or one of the IEEE specials     *)
(* that scipy returns instead of raising.                                  *)

Finite(v) == [kind |-> "finite", val |-> v]
NaN == [kind |-> "nan", val |-> 0]
PosInf == [kind |-> "inf", val |-> 1]
NegInf == [kind |-> "inf", val |-> -1]

---------------------------------------------------------------------------
(* scipy.stats.norm *)

\* Phi(i/100) for i = 0..650, in units of 1e-9: the standard normal CDF.
PhiTable ==
    << 500000000, 503989356, 507978314, 511966473, 515953437, 519938806, 523922183, 527903170,
       531881372, 535856393, 539827837, 543795313, 547758426, 551716787, 555670005, 559617692,
       563559463, 567494932, 571423716, 575345435, 579259709, 583166163, 587064423, 590954115,
       594834872, 598706326, 602568113, 606419873, 610261248, 614091881, 617911422, 621719522,
       625515835, 629300019, 633071736, 636830651, 640576433, 644308755, 648027292, 651731727,
       655421742, 659097026, 662757273, 666402179, 670031446, 673644780, 677241890, 680822491,
       684386303, 687933051, 691462461, 694974269, 698468212, 701944035, 705401484, 708840313,
       712260281, 715661151, 719042691, 722404675, 725746882, 729069096, 732371107, 735652708,
       738913700, 742153889, 745373085, 748571105, 751747770, 754902906, 758036348, 761147932,
       764237502, 767304908, 770350003, 773372648, 776372708, 779350054, 782304562, 785236116,
       788144601, 791029912, 793891946, 796730608, 799545807, 802337457, 805105479, 807849798,
       810570345, 813267057, 815939875, 818588745, 821213620, 823814458, 826391220, 828943874,
       831472393, 833976754, 836456941, 838912940, 841344746, 843752355, 846135770, 848494997,
       850830050, 853140944, 855427700, 857690346, 859928910, 862143428, 864333939, 866500487,
       868643119, 870761888, 872856849, 874928064, 876975597, 878999516, 880999893, 882976804,
       884930330, 886860554, 888767563, 890651448, 892512303, 894350226, 896165319, 897957685,
       899727432, 901474671, 903199515, 904902082, 906582491, 908240864, 909877328, 911492009,
       913085038, 914656549, 916206678, 917735561, 919243341, 920730159, 922196159, 923641490,
       925066300, 926470740, 927854963, 929219123, 930563377, 931887882, 933192799, 934478288,
       935744512, 936991636, 938219823, 939429242, 940620059, 941792444, 942946567, 944082597,
       945200708, 946301072, 947383862, 948449252, 949497417, 950528532, 951542774, 952540318,
       953521342, 954486023, 955434537, 956367063, 957283779, 958184862, 959070491, 959940843,
       960796097, 961636430, 962462020, 963273044, 964069681, 964852106, 965620498, 966375031,
       967115881, 967843225, 968557237, 969258091, 969945961, 970621020, 971283440, 971933393,
       972571050, 973196581, 973810155, 974411940, 975002105, 975580815, 976148236, 976704532,
       977249868, 977784406, 978308306, 978821730, 979324837, 979817785, 980300730, 980773828,
       981237234, 981691100, 982135579, 982570822, 982996977, 983414193, 983822617, 984222393,
       984613665, 984996577, 985371269, 985737882, 986096552, 986447419, 986790616, 987126279,
       987454539, 987775527, 988089375, 988396208, 988696156, 988989342, 989275890, 989555923,
       989829561, 990096924, 990358130, 990613294, 990862532, 991105957, 991343681, 991575814,
       991802464, 992023740, 992239746, 992450589, 992656369, 992857189, 993053149, 993244347,
       993430881, 993612845, 993790335, 993963442, 994132258, 994296874, 994457377, 994613854,
       994766392, 994915074, 995059984, 995201203, 995338812, 995472889, 995603512, 995730757,
       995854699, 995975411, 996092967, 996207438, 996318892, 996427399, 996533026, 996635840,
       996735904, 996833284, 996928041, 997020237, 997109932, 997197185, 997282055, 997364598,
       997444870, 997522925, 997598818, 997672600, 997744323, 997814039, 997881795, 997947641,
       998011624, 998073791, 998134187, 998192856, 998249843, 998305190, 998358939, 998411130,
       998461805, 998511001, 998558758, 998605113, 998650102, 998693762, 998736127, 998777231,
       998817109, 998855793, 998893315, 998929706, 998964997, 998999218, 999032397, 999064563,
       999095745, 999125968, 999155261, 999183648, 999211154, 999237805, 999263625, 999288636,
       999312862, 999336325, 999359047, 999381049, 999402352, 999422975, 999442939, 999462263,
       999480965, 999499063, 999516576, 999533520, 999549913, 999565770, 999581108, 999595942,
       999610288, 999624159, 999637571, 999650537, 999663071, 999675186, 999686894, 999698209,
       999709143, 999719707, 999729912, 999739771, 999749293, 999758490, 999767371, 999775947,
       999784227, 999792220, 999799936, 999807384, 999814573, 999821509, 999828203, 999834661,
       999840891, 999846901, 999852698, 999858289, 999863681, 999868880, 999873892, 999878725,
       999883383, 999887873, 999892200, 999896370, 999900389, 999904260, 999907990, 999911583,
       999915043, 999918376, 999921586, 999924676, 999927652, 999930517, 999933274, 999935928,
       999938483, 999940941, 999943306, 999945582, 999947772, 999949878, 999951904, 999953852,
       999955726, 999957527, 999959259, 999960924, 999962525, 999964064, 999965542, 999966963,
       999968329, 999969641, 999970901, 999972112, 999973274, 999974391, 999975464, 999976493,
       999977482, 999978431, 999979342, 999980217, 999981056, 999981862, 999982635, 999983376,
       999984088, 999984770, 999985425, 999986052, 999986654, 999987231, 999987785, 999988315,
       999988824, 999989311, 999989779, 999990226, 999990655, 999991066, 999991460, 999991837,
       999992199, 999992545, 999992876, 999993193, 999993497, 999993788, 999994066, 999994332,
       999994587, 999994831, 999995065, 999995288, 999995502, 999995706, 999995902, 999996089,
       999996268, 999996439, 999996602, 999996759, 999996908, 999997051, 999997187, 999997318,
       999997442, 999997561, 999997675, 999997784, 999997888, 999997987, 999998081, 999998172,
       999998258, 999998340, 999998419, 999998494, 999998566, 999998634, 999998699, 999998761,
       999998821, 999998877, 999998931, 999998983, 999999032, 999999079, 999999124, 999999166,
       999999207, 999999245, 999999282, 999999317, 999999351, 999999383, 999999413, 999999442,
       999999470, 999999496, 999999521, 999999545, 999999567, 999999589, 999999609, 999999629,
       999999648, 999999665, 999999682, 999999698, 999999713, 999999728, 999999742, 999999755,
       999999767, 999999779, 999999790, 999999801, 999999811, 999999821, 999999830, 999999839,
       999999847, 999999855, 999999863, 999999870, 999999877, 999999883, 999999889, 999999895,
       999999900, 999999906, 999999911, 999999915, 999999920, 999999924, 999999928, 999999932,
       999999935, 999999939, 999999942, 999999945, 999999948, 999999951, 999999954, 999999956,
       999999958, 999999961, 999999963, 999999965, 999999967, 999999968, 999999970, 999999972,
       999999973, 999999975, 999999976, 999999977, 999999979, 999999980, 999999981, 999999982,
       999999983, 999999984, 999999985, 999999986, 999999987, 999999987, 999999988, 999999989,
       999999989, 999999990, 999999990, 999999991, 999999991, 999999992, 999999992, 999999993,
       999999993, 999999994, 999999994, 999999994, 999999995, 999999995, 999999995, 999999996,
       999999996, 999999996, 999999996, 999999996, 999999997, 999999997, 999999997, 999999997,
       999999997, 999999998, 999999998, 999999998, 999999998, 999999998, 999999998, 999999998,
       999999998, 999999998, 999999999, 999999999, 999999999, 999999999, 999999999, 999999999,
       999999999, 999999999, 999999999, 999999999, 999999999, 999999999, 999999999, 999999999,
       999999999, 999999999, 999999999, 1000000000, 1000000000, 1000000000, 1000000000, 1000000000,
       1000000000, 1000000000, 1000000000, 1000000000, 1000000000, 1000000000, 1000000000, 1000000000,
       1000000000, 1000000000, 1000000000, 1000000000, 1000000000, 1000000000, 1000000000, 1000000000,
       1000000000, 1000000000, 1000000000, 1000000000, 1000000000, 1000000000, 1000000000, 1000000000,
       1000000000, 1000000000, 1000000000, 1000000000, 1000000000, 1000000000, 1000000000, 1000000000,
       1000000000, 1000000000, 1000000000 >>
\* The last tabulated z, in units of 1/ZScale.
MaxZ == (Len(PhiTable) - 1) * 10

\* The standard normal CDF at z (in 1/ZScale), by linear interpolation in
\* PhiTable; ndtr(-z) = 1 - ndtr(z).
Phi(z) ==
    LET a == Abs(z)
        i == a \div 10
        r == a % 10
        up == IF a >= MaxZ THEN ProbScale
              ELSE PhiTable[i + 1] + ((PhiTable[i + 2] - PhiTable[i + 1]) * r) \div 10
    IN  IF z >= 0 THEN up ELSE ProbScale - up

\* NormCdf with loc ignored: the CDF of x / scale.
NormCdfNoLoc(x, loc, scale) ==
    IF scale <= 0 THEN NaN ELSE Finite(Phi(RoundDiv(x * ZScale, scale)))

\* stats.norm.cdf(x, loc, scale): NaN for scale <= 0, no exception.
NormCdf(x, loc, scale) ==
    IF scale <= 0 THEN NaN ELSE Finite(Phi(RoundDiv((x - loc) * ZScale, scale)))

\* stats.norm.cdf(z) with the default loc = 0, scale = 1; z in 1/ZScale.
StdNormCdf(z) == Phi(z)

\* The least i in lo..hi with PhiTable[i + 2] >= p (there is one: the table ends at 1).
RECURSIVE Segment(_, _, _)
Segment(p, lo, hi) ==
    IF lo >= hi THEN lo
    ELSE LET mid == (lo + hi) \div 2
         IN  IF PhiTable[mid + 2] >= p THEN Segment(p, lo, mid) ELSE Segment(p, mid + 1, hi)

PhiInvUpper(p) ==
    LET i == Segment(p, 0, Len(PhiTable) - 2)
    IN  i * 10 + RoundDiv((p - PhiTable[i + 1]) * 10, PhiTable[i + 2] - PhiTable[i + 1])

\* The inverse of Phi on (0, 1): the z (in 1/ZScale) whose Phi is p.
PhiInv(p) == IF p >= Half THEN PhiInvUpper(p) ELSE -PhiInvUpper(ProbScale - p)

\* The integer part of n * 10^k / d, one decimal digit at a time; 0 <= n, 0 < d.
RECURSIVE ScaledQuotient(_, _, _)
ScaledQuotient(n, d, k) ==
    IF k = 0 THEN n \div d
    ELSE 10^k * (n \div d) + ScaledQuotient((n % d) * 10, d, k - 1)

\* stats.norm.ppf(q) with the default loc = 0, scale = 1, for Half <= q < 1
\* in 1/ProbScale; the result is in 1/(ZScale * ZFine).
StdNormPpf(q) ==
    LET i == Segment(q, 0, Len(PhiTable) - 2)
    IN  i * 10 * ZFine
          + ScaledQuotient((q - PhiTable[i + 1]) * 10, PhiTable[i + 2] - PhiTable[i + 1], 3)

\* NormPpf with loc and scale left at their defaults 0 and 1.
NormPpfStandard(q, loc, scale) ==
    IF scale <= 0 \/ q < 0 \/ q > ProbScale THEN NaN
    ELSE IF q = 0 THEN NegInf
    ELSE IF q = ProbScale THEN PosInf
    ELSE Finite(PhiInv(q))

\* stats.norm.ppf(q, loc, scale), q in 1/ProbScale, loc and scale in the
\* caller's unit; the result is in 1/ZScale of that unit.  NaN for
\* scale <= 0 and for q outside [0, 1], -inf at q = 0, +inf at q = 1; no
\* exception.
NormPpf(q, loc, scale) ==
    IF scale <= 0 \/ q < 0 \/ q > ProbScale THEN NaN
    ELSE IF q = 0 THEN NegInf
    ELSE IF q = ProbScale THEN PosInf
    ELSE Finite(loc * ZScale + PhiInv(q) * scale)

\* phi(k * 4/999) for k = 0..999, in units of 1e-9: the standard normal
\* density on the grid of the script's sample points.
PdfTable ==
    << 398942280, 398939082, 398929489, 398913500, 398891117, 398862340, 398827171, 398785613,
       398737665, 398683332, 398622615, 398555518, 398482044, 398402196, 398315978, 398223394,
       398124450, 398019148, 397907495, 397789496, 397665157, 397534483, 397397481, 397254157,
       397104518, 396948572, 396786326, 396617787, 396442964, 396261866, 396074500, 395880876,
       395681002, 395474890, 395262548, 395043986, 394819216, 394588247, 394351091, 394107760,
       393858264, 393602615, 393340827, 393072910, 392798879, 392518746, 392232525, 391940228,
       391641870, 391337466, 391027029, 390710575, 390388117, 390059673, 389725256, 389384884,
       389038572, 388686336, 388328193, 387964161, 387594256, 387218495, 386836897, 386449479,
       386056260, 385657259, 385252493, 384841982, 384425745, 384003803, 383576173, 383142878,
       382703936, 382259369, 381809196, 381353441, 380892122, 380425263, 379952884, 379475008,
       378991657, 378502854, 378008620, 377508980, 377003956, 376493571, 375977850, 375456816,
       374930493, 374398905, 373862077, 373320034, 372772800, 372220401, 371662862, 371100208,
       370532466, 369959661, 369381820, 368798968, 368211133, 367618342, 367020620, 366417996,
       365810496, 365198149, 364580982, 363959023, 363332300, 362700841, 362064675, 361423830,
       360778335, 360128220, 359473513, 358814244, 358150442, 357482136, 356809358, 356132136,
       355450500, 354764482, 354074111, 353379418, 352680434, 351977189, 351269715, 350558043,
       349842204, 349122230, 348398152, 347670001, 346937810, 346201611, 345461436, 344717316,
       343969285, 343217374, 342461617, 341702046, 340938693, 340171592, 339400775, 338626277,
       337848129, 337066365, 336281019, 335492125, 334699715, 333903823, 333104484, 332301730,
       331495597, 330686117, 329873326, 329057257, 328237944, 327415422, 326589726, 325760889,
       324928946, 324093932, 323255881, 322414828, 321570808, 320723856, 319874006, 319021294,
       318165753, 317307420, 316446329, 315582516, 314716014, 313846861, 312975090, 312100737,
       311223837, 310344425, 309462537, 308578207, 307691472, 306802366, 305910925, 305017184,
       304121179, 303222944, 302322515, 301419928, 300515217, 299608419, 298699568, 297788700,
       296875849, 295961053, 295044344, 294125760, 293205335, 292283105, 291359104, 290433367,
       289505931, 288576830, 287646099, 286713773, 285779887, 284844477, 283907576, 282969221,
       282029445, 281088285, 280145773, 279201946, 278256837, 277310482, 276362914, 275414169,
       274464281, 273513284, 272561212, 271608100, 270653981, 269698890, 268742862, 267785928,
       266828125, 265869485, 264910042, 263949829, 262988881, 262027230, 261064910, 260101955,
       259138396, 258174269, 257209604, 256244436, 255278797, 254312720, 253346237, 252379381,
       251412184, 250444679, 249476897, 248508871, 247540632, 246572213, 245603645, 244634959,
       243666187, 242697361, 241728512, 240759670, 239790867, 238822133, 237853500, 236884998,
       235916657, 234948508, 233980580, 233012905, 232045511, 231078429, 230111688, 229145318,
       228179348, 227213808, 226248725, 225284131, 224320052, 223356518, 222393557, 221431198,
       220469469, 219508398, 218548012, 217588340, 216629409, 215671246, 214713879, 213757334,
       212801639, 211846821, 210892906, 209939921, 208987891, 208036843, 207086803, 206137797,
       205189850, 204242988, 203297236, 202352619, 201409162, 200466891, 199525828, 198586000,
       197647429, 196710141, 195774160, 194839508, 193906209, 192974287, 192043765, 191114666,
       190187013, 189260829, 188336135, 187412955, 186491310, 185571222, 184652713, 183735805,
       182820519, 181906876, 180994898, 180084604, 179176016, 178269154, 177364038, 176460689,
       175559126, 174659369, 173761438, 172865351, 171971129, 171078789, 170188352, 169299835,
       168413256, 167528634, 166645988, 165765334, 164886690, 164010075, 163135504, 162262996,
       161392566, 160524233, 159658011, 158793918, 157931970, 157072182, 156214570, 155359150,
       154505937, 153654947, 152806194, 151959693, 151115459, 150273505, 149433847, 148596499,
       147761473, 146928784, 146098445, 145270470, 144444872, 143621663, 142800856, 141982463,
       141166498, 140352972, 139541897, 138733285, 137927147, 137123495, 136322340, 135523694,
       134727566, 133933967, 133142909, 132354401, 131568454, 130785076, 130004279, 129226072,
       128450464, 127677463, 126907080, 126139323, 125374201, 124611722, 123851895, 123094727,
       122340227, 121588402, 120839260, 120092808, 119349054, 118608004, 117869666, 117134047,
       116401152, 115670988, 114943562, 114218879, 113496945, 112777766, 112061348, 111347696,
       110636815, 109928710, 109223386, 108520848, 107821099, 107124146, 106429991, 105738639,
       105050094, 104364359, 103681438, 103001335, 102324052, 101649594, 100977962, 100309159,
       99643189, 98980053, 98319754, 97662294, 97007676, 96355900, 95706969, 95060885,
       94417648, 93777261, 93139723, 92505037, 91873203, 91244222, 90618094, 89994819,
       89374399, 88756833, 88142121, 87530263, 86921259, 86315109, 85711811, 85111365,
       84513771, 83919028, 83327133, 82738087, 82151888, 81568535, 80988025, 80410358,
       79835531, 79263543, 78694391, 78128073, 77564587, 77003931, 76446101, 75891096,
       75338913, 74789548, 74242999, 73699262, 73158335, 72620213, 72084894, 71552374,
       71022650, 70495717, 69971571, 69450209, 68931627, 68415820, 67902784, 67392515,
       66885008, 66380259, 65878262, 65379014, 64882509, 64388743, 63897709, 63409404,
       62923821, 62440956, 61960803, 61483357, 61008611, 60536561, 60067200, 59600523,
       59136523, 58675195, 58216532, 57760529, 57307179, 56856476, 56408412, 55962983,
       55520181, 55080000, 54642432, 54207471, 53775111, 53345344, 52918163, 52493561,
       52071532, 51652067, 51235160, 50820803, 50408989, 49999711, 49592960, 49188730,
       48787013, 48387800, 47991085, 47596859, 47205115, 46815844, 46429039, 46044692,
       45662795, 45283339, 44906316, 44531718, 44159538, 43789765, 43422393, 43057413,
       42694816, 42334593, 41976737, 41621239, 41268090, 40917281, 40568804, 40222650,
       39878810, 39537276, 39198038, 38861087, 38526416, 38194015, 37863874, 37535985,
       37210339, 36886927, 36565740, 36246768, 35930002, 35615434, 35303054, 34992853,
       34684821, 34378950, 34075230, 33773651, 33474205, 33176882, 32881673, 32588568,
       32297558, 32008633, 31721784, 31437003, 31154278, 30873601, 30594962, 30318352,
       30043761, 29771179, 29500598, 29232007, 28965398, 28700760, 28438083, 28177359,
       27918578, 27661730, 27406806, 27153795, 26902689, 26653478, 26406152, 26160702,
       25917117, 25675389, 25435508, 25197464, 24961248, 24726849, 24494259, 24263468,
       24034466, 23807244, 23581792, 23358100, 23136160, 22915961, 22697493, 22480748,
       22265716, 22052387, 21840752, 21630801, 21422525, 21215914, 21010959, 20807650,
       20605978, 20405934, 20207508, 20010690, 19815472, 19621844, 19429796, 19239319,
       19050404, 18863042, 18677223, 18492939, 18310179, 18128934, 17949196, 17770954,
       17594201, 17418927, 17245122, 17072777, 16901884, 16732434, 16564416, 16397823,
       16232645, 16068874, 15906499, 15745513, 15585907, 15427671, 15270796, 15115275,
       14961097, 14808255, 14656739, 14506541, 14357651, 14210063, 14063765, 13918751,
       13775012, 13632538, 13491321, 13351353, 13212626, 13075130, 12938858, 12803800,
       12669950, 12537297, 12405835, 12275554, 12146447, 12018505, 11891719, 11766083,
       11641587, 11518224, 11395986, 11274864, 11154851, 11035938, 10918117, 10801382,
       10685723, 10571133, 10457604, 10345129, 10233700, 10123308, 10013946, 9905607,
       9798284, 9691967, 9586651, 9482327, 9378987, 9276626, 9175234, 9074805,
       8975331, 8876806, 8779221, 8682570, 8586845, 8492040, 8398146, 8305158,
       8213067, 8121868, 8031552, 7942113, 7853545, 7765839, 7678990, 7592991,
       7507834, 7423513, 7340022, 7257353, 7175500, 7094457, 7014217, 6934773,
       6856118, 6778248, 6701154, 6624831, 6549272, 6474471, 6400422, 6327119,
       6254554, 6182723, 6111619, 6041235, 5971567, 5902607, 5834350, 5766790,
       5699921, 5633737, 5568232, 5503400, 5439236, 5375734, 5312889, 5250693,
       5189143, 5128232, 5067955, 5008306, 4949279, 4890870, 4833073, 4775882,
       4719292, 4663298, 4607895, 4553077, 4498838, 4445175, 4392081, 4339552,
       4287583, 4236168, 4185302, 4134981, 4085199, 4035952, 3987235, 3939042,
       3891370, 3844213, 3797567, 3751426, 3705787, 3660644, 3615993, 3571830,
       3528149, 3484947, 3442218, 3399959, 3358165, 3316831, 3275954, 3235529,
       3195551, 3156016, 3116921, 3078261, 3040031, 3002228, 2964848, 2927886,
       2891338, 2855201, 2819471, 2784143, 2749213, 2714678, 2680534, 2646777,
       2613404, 2580409, 2547791, 2515544, 2483666, 2452152, 2421000, 2390205,
       2359763, 2329673, 2299928, 2270528, 2241467, 2212743, 2184351, 2156290,
       2128555, 2101143, 2074050, 2047275, 2020812, 1994659, 1968814, 1943272,
       1918031, 1893087, 1868438, 1844080, 1820010, 1796226, 1772724, 1749502,
       1726556, 1703884, 1681483, 1659349, 1637481, 1615875, 1594528, 1573438,
       1552602, 1532018, 1511682, 1491593, 1471746, 1452141, 1432773, 1413642,
       1394743, 1376075, 1357635, 1339421, 1321430, 1303659, 1286107, 1268771,
       1251649, 1234738, 1218036, 1201540, 1185249, 1169160, 1153271, 1137580,
       1122084, 1106781, 1091670, 1076747, 1062012, 1047462, 1033094, 1018907,
       1004899, 991067, 977410, 963926, 950613, 937469, 924491, 911679,
       899029, 886541, 874213, 862042, 850027, 838165, 826457, 814898,
       803489, 792226, 781109, 770135, 759304, 748613, 738060, 727645,
       717365, 707219, 697205, 687322, 677568, 667942, 658442, 649067,
       639815, 630685, 621675, 612785, 604011, 595354, 586811, 578382,
       570064, 561857, 553760, 545770, 537887, 530110, 522436, 514865,
       507396, 500027, 492758, 485586, 478511, 471531, 464646, 457854,
       451154, 444545, 438026, 431595, 425252, 418996, 412825, 406738,
       400735, 394814, 388974, 383215, 377534, 371932, 366407, 360959,
       355585, 350287, 345061, 339908, 334827, 329816, 324875, 320003,
       315199, 310462, 305792, 301186, 296646, 292169, 287755, 283404,
       279113, 274883, 270713, 266602, 262549, 258554, 254615, 250733,
       246905, 243132, 239413, 235747, 232134, 228572, 225061, 221600,
       218190, 214828, 211515, 208249, 205031, 201859, 198733, 195652,
       192616, 189624, 186676, 183770, 180907, 178085, 175305, 172565,
       169866, 167206, 164585, 162002, 159458, 156951, 154480, 152047,
       149649, 147286, 144959, 142666, 140407, 138182, 135990, 133830 >>
\* The resolution of PdfTable: its k-th entry is the density at z = k * HalfWidth / PdfGrid.
PdfGrid == Len(PdfTable) - 1

\* np.linspace(mu - 4*sigma, mu + 4*sigma, 1000) (line 105): the half width in sigmas ...
HalfWidth == 4
\* (one sample more: an odd number of samples has the mean itself as its middle one)
NumSamplesOdd == 1000 + 1
\* ... and the number of samples.
NumSamples == 1000

\* stats.norm.pdf(x, loc, scale) for x = xnum / xden, with loc and scale in tenths:
\* phi((x - loc) / scale) / scale in units of 1/DensScale; NaN for scale <= 0, no
\* exception.  The table covers |x - loc| <= 4 * scale, which is where the script
\* samples the density.
NormPdf(xnum, xden, loc, scale) ==
    IF scale <= 0 THEN NaN
    ELSE LET k == RoundDiv(Abs(xnum - loc * xden) * PdfGrid, HalfWidth * scale * xden)
         IN  Finite(RoundDiv(PdfTable[k + 1], scale))

\* x_range (line 105): the i-th sample, i = 1..NumSamples, as a numerator over
\* NumSamples - 1, in tenths.
XRangeDen == NumSamples - 1
XRangeNum(mu, sigma, i) ==
    (mu - HalfWidth * sigma) * XRangeDen + (i - 1) * (2 * HalfWidth * sigma)

\* y_values (line 106).
YValue(mu, sigma, i) == NormPdf(XRangeNum(mu, sigma, i), XRangeDen, mu, sigma).val

\* max_height = np.max(y_values) (line 107).
RECURSIVE MaxOver(_, _, _, _)
MaxOver(mu, sigma, lo, hi) ==
    IF lo = hi THEN YValue(mu, sigma, lo)
    ELSE LET mid == (lo + hi) \div 2
             a == MaxOver(mu, sigma, lo, mid)
             b == MaxOver(mu, sigma, mid + 1, hi)
         IN  IF a >= b THEN a ELSE b

MaxHeight(mu, sigma) == MaxOver(mu, sigma, 1, NumSamples)

\* "{:.3f}" of a density: thousandths, rounded.
Format3(d) == RoundDiv(d, DensScale \div 1000)

---------------------------------------------------------------------------
(* The formulas of the script. *)

\* EmpiricalRange with the multiplier dropped: one sigma whatever k.
EmpiricalRangeOneSigma(mu, sigma, k) == << mu - sigma, mu + sigma >>
\* The empirical-rule ranges [mu - k*sigma, mu + k*sigma] (lines 112-114, 498-499).
EmpiricalRange(mu, sigma, k) == << mu - k * sigma, mu + k * sigma >>

\* Quality control (lines 560-567).
LowerSpec(target_diameter, tolerance) == target_diameter - tolerance
\* UpperSpec with the sign of LowerSpec: target_diameter - tolerance.
UpperSpecMinus(target_diameter, tolerance) == target_diameter - tolerance
UpperSpec(target_diameter, tolerance) == target_diameter + tolerance
\* PRejectLow with loc and scale left at their defaults 0 and 1.
PRejectLowStandard(lower, mu, sigma) == NormCdf(lower, 0, 1).val
PRejectLow(lower, mu, sigma) == NormCdf(lower, mu, sigma).val
\* PRejectHigh without the complement: the CDF at the upper limit itself.
PRejectHighNoComplement(upper, mu, sigma) == NormCdf(upper, mu, sigma).val
PRejectHigh(upper, mu, sigma) == ProbScale - NormCdf(upper, mu, sigma).val
PRejectTotal(lower, upper, mu, sigma) ==
    PRejectLow(lower, mu, sigma) + PRejectHigh(upper, mu, sigma)
PAccept(lower, upper, mu, sigma) == ProbScale - PRejectTotal(lower, upper, mu, sigma)

\* ProcessCapability with the two labels exchanged.
ProcessCapabilitySwapped(p_reject_total) ==
    IF p_reject_total < Hundredths(5) THEN "Needs improvement" ELSE "Good"
\* 'Good' if p_reject_total < 0.05 else 'Needs improvement' (line 582).
ProcessCapability(p_reject_total) ==
    IF p_reject_total < Hundredths(5) THEN "Good" ELSE "Needs improvement"

\* int(p * 10000) (line 578).
Bolts(p) == p \div (ProbScale \div 10000)

\* A probability times 100 (lines 632-634, 703-704): the same count, of 1/PctScale.
Pct(p) == p

\* Financial analysis (lines 632-637).
ProbLoss(expected_return, volatility) == Pct(NormCdf(0, expected_return, volatility).val)
ProbDoubleDigit(expected_return, volatility) ==
    Pct(ProbScale - NormCdf(10, expected_return, volatility).val)
ProbLargeLoss(expected_return, volatility) ==
    Pct(NormCdf(-20, expected_return, volatility).val)

\* Educational assessment (lines 703-704, 720).
PercentileCutoff(cutoff, mean, std) == Pct(NormCdf(cutoff, mean, std).val)
ProbQualify(cutoff, mean, std) == Pct(ProbScale - NormCdf(cutoff, mean, std).val)
\* Selectivity with the upper threshold inclusive: prob_qualify <= 50.
SelectivityInclusive(prob_qualify) ==
    IF prob_qualify < 25 * PctScale THEN "Highly selective"
    ELSE IF prob_qualify <= 50 * PctScale THEN "Moderately selective"
    ELSE "Less selective"
Selectivity(prob_qualify) ==
    IF prob_qualify < 25 * PctScale THEN "Highly selective"
    ELSE IF prob_qualify < 50 * PctScale THEN "Moderately selective"
    ELSE "Less selective"

\* One-sample z-test (lines 790-798).
\* math.sqrt(n) in thousandths, rounded down.
RECURSIVE SqrtBetween(_, _, _)
SqrtBetween(n, lo, hi) ==
    IF lo >= hi THEN lo
    ELSE LET mid == (lo + hi + 1) \div 2
         IN  IF mid * mid <= n THEN SqrtBetween(n, mid, hi) ELSE SqrtBetween(n, lo, mid - 1)
Sqrt(n) == SqrtBetween(n * ZScale * ZScale, 0, 20 * ZScale)
\* StandardError with integer division by the sample size itself:
\* population_std // sample_size.
StandardErrorFloorDiv(population_std, sample_size) ==
    (population_std \div sample_size) * ZScale
\* population_std / math.sqrt(sample_size), in thousandths.
StandardError(population_std, sample_size) ==
    RoundDiv(population_std * ZScale * ZScale, Sqrt(sample_size))
\* StandardScore with the operands of the subtraction swapped.
StandardScoreSwapped(x, mu, sigma) == RoundDiv((mu - x) * ZScale * ZScale, sigma)
\* (x - mu) / sigma in 1/ZScale, for sigma in thousandths of the unit of x and mu.
StandardScore(x, mu, sigma) == RoundDiv((x - mu) * ZScale * ZScale, sigma)
\* PValue for one tail only: 1 - stats.norm.cdf(abs(z_score)).
PValueOneTailed(z_score) == ProbScale - StdNormCdf(Abs(z_score))
\* PValue without the complement: twice the CDF itself.
PValueNoComplement(z_score) == 2 * StdNormCdf(Abs(z_score))
PValue(z_score) == 2 * (ProbScale - StdNormCdf(Abs(z_score)))
\* ZCritical for a one-sided test: stats.norm.ppf(1 - alpha).
ZCriticalOneSided(alpha) ==
    StdNormPpf(ProbScale - alpha * (ProbScale \div 1000))
\* stats.norm.ppf(1 - alpha/2), alpha in thousandths; in 1/(ZScale * ZFine).
ZCritical(alpha) ==
    StdNormPpf(ProbScale - (alpha * (ProbScale \div 1000)) \div 2)
\* A critical value as the page prints it, {z_critical:.3f}: in 1/ZScale.
ThreeDecimals(z_critical) == RoundDiv(z_critical, ZFine)
\* abs(z_score) > z_critical, z_score in 1/ZScale and z_critical unrounded.
RejectNull(z_score, z_critical) == Abs(z_score) * ZFine > z_critical

---------------------------------------------------------------------------
(* The widgets. *)

Sections == { "Introduction", "Interactive Explorer", "Physical Manipulatives",
              "Real-World Applications", "Problem Solving", "Hypothesis Testing" }
ProblemTypes == { "Medical Diagnosis", "Quality Control", "Financial Analysis",
                  "Educational Assessment" }
TestTypes == { "One-sample z-test", "Two-sample comparison",
               "Quality control testing", "Clinical trial analysis" }
\* The significance levels offered (line 787), in thousandths.
Alphas == { 10, 50, 100 }

\* st.slider(label, min, max, default[, step]) in counts of the step: the slider's
\* positions, and the positions the model moves it to.
Sliders ==
    [ mu               |-> [min |-> -50, max |-> 50,   default |-> 0],
      sigma            |-> [min |-> 1,   max |-> 30,   default |-> 10],
      mu_chol          |-> [min |-> 150, max |-> 250,  default |-> 190],
      sigma_chol       |-> [min |-> 20,  max |-> 50,   default |-> 35],
      target_diameter  |-> [min |-> 950, max |-> 1050, default |-> 1000],
      process_std      |-> [min |-> 5,   max |-> 25,   default |-> 15],
      tolerance        |-> [min |-> 10,  max |-> 50,   default |-> 30],
      expected_return  |-> [min |-> 0,   max |-> 20,   default |-> 8],
      volatility       |-> [min |-> 5,   max |-> 25,   default |-> 12],
      sat_mean         |-> [min |-> 400, max |-> 600,  default |-> 528],
      sat_std          |-> [min |-> 80,  max |-> 150,  default |-> 117],
      admission_cutoff |-> [min |-> 400, max |-> 700,  default |-> 600],
      claimed_mean     |-> [min |-> 800, max |-> 1200, default |-> 1000],
      population_std   |-> [min |-> 50,  max |-> 200,  default |-> 100],
      sample_size      |-> [min |-> 10,  max |-> 100,  default |-> 36],
      sample_mean      |-> [min |-> 800, max |-> 1200, default |-> 950] ]

SliderNames == DOMAIN Sliders

\* Positions with the slider's range starting at zero.
PositionsFromZero(name) ==
    LET s == Sliders[name]
    IN  { 0 } \cup ({ s.default + d : d \in -Reach..Reach } \cap (0 .. s.max))
            \cup { s.min + ((s.max - s.min) * j) \div Parts : j \in 0..Parts }

Positions(name) ==
    LET s == Sliders[name]
    IN  ({ s.default + d : d \in -Reach..Reach } \cap (s.min .. s.max))
            \cup { s.min + ((s.max - s.min) * j) \div Parts : j \in 0..Parts }

\* The sliders each branch of the script renders.
SlidersOf(sec, prob, test) ==
    IF sec = "Interactive Explorer" THEN { "mu", "sigma" }
    ELSE IF sec = "Problem Solving" THEN
        IF prob = "Medical Diagnosis" THEN { "mu_chol", "sigma_chol" }
        ELSE IF prob = "Quality Control" THEN { "target_diameter", "process_std", "tolerance" }
        ELSE IF prob = "Financial Analysis" THEN { "expected_return", "volatility" }
        ELSE { "sat_mean", "sat_std", "admission_cutoff" }
    ELSE IF sec = "Hypothesis Testing" /\ test = "One-sample z-test" THEN
        { "claimed_mean", "population_std", "sample_size", "sample_mean" }
    ELSE {}

\* Every widget at the value a first rendering gives it.
Defaults ==
    [ n \in SliderNames |-> Sliders[n].default ]
        @@ [ show_comparison |-> FALSE, alpha |-> 50 ]

---------------------------------------------------------------------------
(* One run of the script (lines 14-999): the branch the section selects,   *)
(* then the footer.  The matplotlib figures are drawn from the same values *)
(* and are not part of the state.                                          *)

\* max_height at every position of the mu and sigma sliders, evaluated once.
MaxHeights ==
    [ m \in Positions("mu") |-> [ s \in Positions("sigma") |-> MaxHeight(m, s) ] ]

Explorer(ws, answers) ==
    [ branch      |-> "Interactive Explorer",
      sub         |-> "none",
      mu          |-> ws.mu,
      sigma       |-> ws.sigma,
      variance    |-> ws.sigma * ws.sigma,
      max_height  |-> MaxHeights[ws.mu][ws.sigma],
      range68     |-> EmpiricalRange(ws.mu, ws.sigma, 1),
      range95     |-> EmpiricalRange(ws.mu, ws.sigma, 2),
      range997    |-> EmpiricalRange(ws.mu, ws.sigma, 3),
      comparison  |-> ws.show_comparison,
      answers     |-> answers,
      footer      |-> TRUE ]

MedicalDiagnosis(ws) ==
    LET range == EmpiricalRange(ws.mu_chol, ws.sigma_chol, 2)
    IN  [ branch          |-> "Problem Solving",
          sub             |-> "Medical Diagnosis",
          low_normal      |-> range[1],
          high_normal     |-> range[2],
          borderline_high |-> ws.mu_chol + ws.sigma_chol,
          footer          |-> TRUE ]

QualityControl(ws) ==
    LET lower_spec == LowerSpec(ws.target_diameter, ws.tolerance)
        upper_spec == UpperSpec(ws.target_diameter, ws.tolerance)
        p_reject_total == PRejectTotal(lower_spec, upper_spec, ws.target_diameter, ws.process_std)
        p_accept == PAccept(lower_spec, upper_spec, ws.target_diameter, ws.process_std)
    IN  [ branch         |-> "Problem Solving",
          sub            |-> "Quality Control",
          lower_spec     |-> lower_spec,
          upper_spec     |-> upper_spec,
          p_reject_low   |-> PRejectLow(lower_spec, ws.target_diameter, ws.process_std),
          p_reject_high  |-> PRejectHigh(upper_spec, ws.target_diameter, ws.process_std),
          p_reject_total |-> p_reject_total,
          p_accept       |-> p_accept,
          good           |-> Bolts(p_accept),
          rejected       |-> Bolts(p_reject_total),
          capability     |-> ProcessCapability(p_reject_total),
          footer         |-> TRUE ]

\* A run that a Python exception ended: the page shows the exception and
\* nothing the script would have rendered after it, the footer included.
Crashed(sec, sub, exception) ==
    [ branch |-> sec, sub |-> sub, error |-> exception, footer |-> FALSE ]

FinancialAnalysis(ws) ==
    IF ws.volatility = 0
    THEN Crashed("Problem Solving", "Financial Analysis", "ZeroDivisionError")
    ELSE
    [ branch            |-> "Problem Solving",
      sub               |-> "Financial Analysis",
      prob_loss         |-> ProbLoss(ws.expected_return, ws.volatility),
      prob_double_digit |-> ProbDoubleDigit(ws.expected_return, ws.volatility),
      prob_large_loss   |-> ProbLargeLoss(ws.expected_return, ws.volatility),
      var_5             |-> NormPpf(Hundredths(5), ws.expected_return, ws.volatility).val,
      risk_return       |-> RoundDiv(ws.expected_return * 100, ws.volatility),
      footer            |-> TRUE ]

EducationalAssessment(ws) ==
    LET prob_qualify == ProbQualify(ws.admission_cutoff, ws.sat_mean, ws.sat_std)
    IN  [ branch            |-> "Problem Solving",
          sub               |-> "Educational Assessment",
          percentile_cutoff |-> PercentileCutoff(ws.admission_cutoff, ws.sat_mean, ws.sat_std),
          prob_qualify      |-> prob_qualify,
          score_25th        |-> NormPpf(Hundredths(25), ws.sat_mean, ws.sat_std).val,
          score_75th        |-> NormPpf(Hundredths(75), ws.sat_mean, ws.sat_std).val,
          score_90th        |-> NormPpf(Hundredths(90), ws.sat_mean, ws.sat_std).val,
          selectivity       |-> Selectivity(prob_qualify),
          footer            |-> TRUE ]

OneSampleZTest(ws) ==
    IF Sqrt(ws.sample_size) = 0 \/ StandardError(ws.population_std, ws.sample_size) = 0
    THEN Crashed("Hypothesis Testing", "One-sample z-test", "ZeroDivisionError")
    ELSE
    LET standard_error == StandardError(ws.population_std, ws.sample_size)
        z_score == StandardScore(ws.sample_mean, ws.claimed_mean, standard_error)
        z_critical == ZCritical(ws.alpha)
    IN  [ branch         |-> "Hypothesis Testing",
          sub            |-> "One-sample z-test",
          standard_error |-> standard_error,
          z_score        |-> z_score,
          p_value        |-> PValue(z_score),
          z_critical     |-> z_critical,
          reject_null    |-> RejectNull(z_score, z_critical),
          footer         |-> TRUE ]

\* The standard-deviation arguments (scale) a run passes to stats.norm.pdf, cdf
\* and ppf, in the unit of the slider they come from; the literal or default
\* scale 1 is 1.
ScaleArgs(sec, prob, test, ws) ==
    IF sec = "Introduction" THEN { 1 }
    ELSE IF sec = "Interactive Explorer" THEN
        { ws.sigma } \cup (IF ws.show_comparison THEN { 1 } ELSE {})
    ELSE IF sec = "Problem Solving" THEN
        IF prob = "Medical Diagnosis" THEN { ws.sigma_chol }
        ELSE IF prob = "Quality Control" THEN { ws.process_std }
        ELSE IF prob = "Financial Analysis" THEN { ws.volatility }
        ELSE { ws.sat_std }
    ELSE IF sec = "Hypothesis Testing" /\ test = "One-sample z-test" THEN { 1 }
    ELSE {}

\* The probability arguments a run passes to stats.norm.ppf.
QuantileArgs(sec, prob, test, ws) ==
    IF sec = "Problem Solving" /\ prob = "Financial Analysis" THEN { Hundredths(5) }
    ELSE IF sec = "Problem Solving" /\ prob = "Educational Assessment" THEN
        { Hundredths(25), Hundredths(75), Hundredths(90) }
    ELSE IF sec = "Hypothesis Testing" /\ test = "One-sample z-test" THEN
        { ProbScale - (ws.alpha * (ProbScale \div 1000)) \div 2 }
    ELSE {}

\* A branch that computes nothing: static text only.
Static(sec) == [ branch |-> sec, sub |-> "none", footer |-> TRUE ]

\* Render with the Explorer block outside the if/elif chain: it runs whatever
\* the section.
RenderExplorerAlways(sec, prob, test, ws, answers) == Explorer(ws, answers)

Render(sec, prob, test, ws, answers) ==
    IF sec = "Interactive Explorer" THEN Explorer(ws, answers)
    ELSE IF sec = "Problem Solving" THEN
        IF prob = "Medical Diagnosis" THEN MedicalDiagnosis(ws)
        ELSE IF prob = "Quality Control" THEN QualityControl(ws)
        ELSE IF prob = "Financial Analysis" THEN FinancialAnalysis(ws)
        ELSE EducationalAssessment(ws)
    ELSE IF sec = "Hypothesis Testing" THEN
        IF test = "One-sample z-test" THEN OneSampleZTest(ws) ELSE Static(sec)
    ELSE Static(sec)

---------------------------------------------------------------------------
(* The session. *)

NoCall == [ fn |-> "none" ]

\* The callers whose sessions the server runs, each in a thread of its own.
Callers == { "a", "b" }
\* No figure: a run that has not reached plt.subplots.
NoFigure == << "none", 0 >>
\* A caller whose thread runs nothing and has shown nothing yet.
Idle ==
    [ pc |-> "idle", mu |-> Defaults.mu, sigma |-> Defaults.sigma, count |-> 0,
      next_num |-> 0, fig |-> NoFigure, values |-> Static("none"), image |-> {} ]

Init ==
    /\ section = "Introduction"
    /\ problem_type = "Medical Diagnosis"
    /\ test_type = "One-sample z-test"
    /\ w = Defaults
    /\ clicked = FALSE
    /\ view = Render(section, problem_type, test_type, w, clicked)
    /\ call = NoCall
    /\ runs = [ c \in Callers |-> Idle ]
    /\ figs = {}
    /\ artists = {}

\* Rerun left out: the values of the previous run stay on the page.
RerunSkipped == view' = view
\* The re-run that follows an interaction.
Rerun == view' = Render(section', problem_type', test_type', w', clicked')

\* A widget that a run does not render loses its value: it is back at its
\* default when a later run renders it again.
SelectSection(s) ==
    /\ s # section
    /\ section' = s
    /\ problem_type' = "Medical Diagnosis"
    /\ test_type' = "One-sample z-test"
    /\ w' = Defaults
    /\ clicked' = FALSE
    /\ UNCHANGED << call, runs, figs, artists >>
    /\ Rerun

SelectProblemType(p) ==
    /\ section = "Problem Solving"
    /\ p # problem_type
    /\ problem_type' = p
    /\ w' = Defaults
    /\ clicked' = FALSE
    /\ UNCHANGED << section, test_type, call, runs, figs, artists >>
    /\ Rerun

SelectTestType(t) ==
    /\ section = "Hypothesis Testing"
    /\ t # test_type
    /\ test_type' = t
    /\ w' = Defaults
    /\ clicked' = FALSE
    /\ UNCHANGED << section, problem_type, call, runs, figs, artists >>
    /\ Rerun

MoveSlider(name, v) ==
    /\ name \in SlidersOf(section, problem_type, test_type)
    /\ v \in Positions(name)
    /\ v # w[name]
    /\ w' = [w EXCEPT ![name] = v]
    /\ clicked' = FALSE
    /\ UNCHANGED << section, problem_type, test_type, call, runs, figs, artists >>
    /\ Rerun

ToggleComparison ==
    /\ section = "Interactive Explorer"
    /\ w' = [w EXCEPT !.show_comparison = ~w.show_comparison]
    /\ clicked' = FALSE
    /\ UNCHANGED << section, problem_type, test_type, call, runs, figs, artists >>
    /\ Rerun

ClickShowAnswers ==
    /\ section = "Interactive Explorer"
    /\ clicked' = TRUE
    /\ UNCHANGED << section, problem_type, test_type, w, call, runs, figs, artists >>
    /\ Rerun

SelectAlpha(a) ==
    /\ section = "Hypothesis Testing"
    /\ test_type = "One-sample z-test"
    /\ a # w.alpha
    /\ w' = [w EXCEPT !.alpha = a]
    /\ clicked' = FALSE
    /\ UNCHANGED << section, problem_type, test_type, call, runs, figs, artists >>
    /\ Rerun

Next ==
    \/ \E s \in Sections : SelectSection(s)
    \/ \E p \in ProblemTypes : SelectProblemType(p)
    \/ \E t \in TestTypes : SelectTestType(t)
    \/ \E name \in SlidersOf(section, problem_type, test_type) :
           \E v \in Positions(name) : MoveSlider(name, v)
    \/ ToggleComparison
    \/ ClickShowAnswers
    \/ \E a \in Alphas : SelectAlpha(a)

Spec == Init /\ [][Next]_vars

---------------------------------------------------------------------------
(* The formulas evaluated directly, on arguments no slider restricts: the  *)
(* script's expressions stats.norm.pdf(x, mu, sigma), stats.norm.cdf(x,    *)
(* mu, sigma), stats.norm.ppf(q, mu, sigma) and the acceptance probability *)
(* of lines 564-567, as the functions of their arguments that they are.    *)
(* The script has no raise, try or assert: an evaluation always returns.   *)
(* No evaluation leaves anything behind for the next one, so a behaviour   *)
(* is one evaluation.                                                      *)

Args == -FnSpan .. FnSpan
Scales == -1 .. FnSpan
\* Probabilities below, at, inside and above [0, 1].
Quantiles ==
    { -Half, 0, ProbScale, ProbScale + Half }
        \cup { j * (ProbScale \div (FnSpan + 1)) : j \in 1..FnSpan }

Returned(fn, args, result) ==
    [ fn |-> fn, args |-> args, result |-> result, outcome |-> "returned" ]

CallDensity(x, mu, sigma) ==
    /\ call = NoCall
    /\ sigma <= 0 \/ Abs(x - mu) <= HalfWidth * sigma
    /\ call' = Returned("density", << x, mu, sigma >>, NormPdf(x, 1, mu, sigma))
    /\ UNCHANGED << section, problem_type, test_type, w, clicked, view, runs, figs, artists >>

CallCumulative(x, mu, sigma) ==
    /\ call = NoCall
    /\ call' = Returned("cumulative", << x, mu, sigma >>, NormCdf(x, mu, sigma))
    /\ UNCHANGED << section, problem_type, test_type, w, clicked, view, runs, figs, artists >>

CallQuantile(p, mu, sigma) ==
    /\ call = NoCall
    /\ call' = Returned("quantile", << p, mu, sigma >>, NormPpf(p, mu, sigma))
    /\ UNCHANGED << section, problem_type, test_type, w, clicked, view, runs, figs, artists >>

\* stats.norm.ppf applied to the value stats.norm.cdf returned, with the same
\* loc and scale (lines 703-709 call both on (sat_mean, sat_std)).
QuantileOfCumulative(x, mu, sigma) ==
    LET p == NormCdf(x, mu, sigma)
    IN  IF p.kind # "finite" THEN NaN ELSE NormPpf(p.val, mu, sigma)

\* The x the composition is evaluated at: within FnSpan of mu, and one point
\* far above mu, where the double nearest to the CDF is 1.0 itself
\* (1 - cdf < 2^-54 from about 8.3 sigma above the mean).
FarAbove(mu, sigma) == mu + FnSpan * FnSpan * sigma
RoundTripPoints(mu, sigma) == { mu + d : d \in Args } \cup { FarAbove(mu, sigma) }

CallRoundTrip(x, mu, sigma) ==
    /\ call = NoCall
    /\ call' = Returned("round_trip", << x, mu, sigma >>, QuantileOfCumulative(x, mu, sigma))
    /\ UNCHANGED << section, problem_type, test_type, w, clicked, view, runs, figs, artists >>

CallIntervalProbability(lower, upper, mu, sigma) ==
    /\ call = NoCall
    /\ sigma > 0
    /\ call' = Returned("interval_probability", << lower, upper, mu, sigma >>,
                        Finite(PAccept(lower, upper, mu, sigma)))
    /\ UNCHANGED << section, problem_type, test_type, w, clicked, view, runs, figs, artists >>

NextFn ==
    \/ \E x \in Args, mu \in Args, sigma \in Scales : CallDensity(x, mu, sigma)
    \/ \E x \in Args, mu \in Args, sigma \in Scales : CallCumulative(x, mu, sigma)
    \/ \E p \in Quantiles, mu \in Args, sigma \in Scales : CallQuantile(p, mu, sigma)
    \/ \E mu \in Args, sigma \in Scales :
           \E x \in RoundTripPoints(mu, sigma) : CallRoundTrip(x, mu, sigma)
    \/ \E lower \in Args, upper \in Args, mu \in Args, sigma \in Scales :
           CallIntervalProbability(lower, upper, mu, sigma)

SpecFn == Init /\ [][NextFn]_vars

---------------------------------------------------------------------------
(* Concurrent callers.  The server runs the script of every session in a   *)
(* thread of its own, in one process.  A run of the Interactive Explorer   *)
(* reads its sliders and computes its values (lines 90-114), makes a       *)
(* figure with plt.subplots (line 119), draws on it (lines 122-156) and    *)
(* shows it with st.pyplot (line 157).  The script takes no lock, and      *)
(* never closes a figure.  plt.subplots is pyplot.figure() followed by     *)
(* fig.subplots(); pyplot.figure() works on pyplot's process-wide registry *)
(* of open figures in three steps that other threads can interleave with:  *)
(* it reads the numbers in use and takes the next one, it looks that       *)
(* number up and returns the figure registered under it if there is one,   *)
(* and otherwise it creates a figure and registers it under the number.    *)
(* Spec and SpecFn leave the registry out: no value they compute reads it. *)

\* The slider settings the concurrent runs are started with.
StartPositions(name) == { Sliders[name].min, Sliders[name].default }

\* The curve a run draws: the density of Normal(mu, sigma) (lines 122-126).
Curve(mu, sigma) == [ mu |-> mu, sigma |-> sigma ]

\* The values a run computes from its sliders (lines 105-114).
ExplorerValues(mu, sigma) ==
    Explorer([ Defaults EXCEPT !.mu = mu, !.sigma = sigma ], FALSE)

\* get_fignums(): the numbers the registry holds.
FigNums == { e.num : e \in figs }
\* max(allnums) + 1 if allnums else 1.
NextNum ==
    IF FigNums = {} THEN 1
    ELSE (CHOOSE n \in FigNums : \A m \in FigNums : m <= n) + 1

\* Lines 90-114: the sliders are read and the values computed.
StartRun(c, mu, sigma) ==
    /\ runs[c].pc = "idle"
    /\ runs[c].count < MaxRuns
    /\ runs' = [runs EXCEPT ![c] = [@ EXCEPT !.pc = "computed", !.mu = mu, !.sigma = sigma,
                                              !.values = ExplorerValues(mu, sigma),
                                              !.fig = NoFigure, !.image = {}]]
    /\ UNCHANGED << section, problem_type, test_type, w, clicked, view, call, figs, artists >>

\* Line 119, pyplot.figure(): next_num from the numbers in use.
ReadFigNums(c) ==
    /\ runs[c].pc = "computed"
    /\ runs' = [runs EXCEPT ![c] = [@ EXCEPT !.pc = "numbered", !.next_num = NextNum]]
    /\ UNCHANGED << section, problem_type, test_type, w, clicked, view, call, figs, artists >>

\* Line 119, pyplot.figure(): the figure registered under the number, if any,
\* is the figure returned; otherwise a new Figure is created.
GetFigManager(c) ==
    /\ runs[c].pc = "numbered"
    /\ IF runs[c].next_num \in FigNums
       THEN LET e == CHOOSE e \in figs : e.num = runs[c].next_num
            IN  runs' = [runs EXCEPT ![c] = [@ EXCEPT !.pc = "figure", !.fig = e.fig]]
       ELSE runs' = [runs EXCEPT ![c] = [@ EXCEPT !.pc = "creating",
                                                  !.fig = << c, runs[c].count + 1 >>]]
    /\ UNCHANGED << section, problem_type, test_type, w, clicked, view, call, figs, artists >>

\* Line 119, pyplot.figure(): the new figure is registered under the number,
\* in place of whatever is registered under it by now.
RegisterFigure(c) ==
    /\ runs[c].pc = "creating"
    /\ figs' = { e \in figs : e.num # runs[c].next_num }
                   \cup { [ num |-> runs[c].next_num, fig |-> runs[c].fig ] }
    /\ runs' = [runs EXCEPT ![c] = [@ EXCEPT !.pc = "figure"]]
    /\ UNCHANGED << section, problem_type, test_type, w, clicked, view, call, artists >>

\* Lines 119-156: axes are added to the figure and the curve is drawn on them.
Draw(c) ==
    /\ runs[c].pc = "figure"
    /\ artists' = artists \cup { [ fig |-> runs[c].fig, curve |-> Curve(runs[c].mu, runs[c].sigma) ] }
    /\ runs' = [runs EXCEPT ![c] = [@ EXCEPT !.pc = "drawn"]]
    /\ UNCHANGED << section, problem_type, test_type, w, clicked, view, call, figs >>

\* Line 157, st.pyplot(fig): the figure is rendered as it is now.  It is
\* neither cleared nor closed: it stays in the registry.
Show(c) ==
    /\ runs[c].pc = "drawn"
    /\ runs' = [runs EXCEPT ![c] = [@ EXCEPT !.pc = "idle", !.count = @ + 1,
                                              !.image = { a.curve : a \in { b \in artists : b.fig = runs[c].fig } }]]
    /\ UNCHANGED << section, problem_type, test_type, w, clicked, view, call, figs, artists >>

NextConc ==
    \E c \in Callers :
        \/ \E mu \in StartPositions("mu"), sigma \in StartPositions("sigma") : StartRun(c, mu, sigma)
        \/ ReadFigNums(c)
        \/ GetFigManager(c)
        \/ RegisterFigure(c)
        \/ Draw(c)
        \/ Show(c)

SpecConc == Init /\ [][NextConc]_vars

---------------------------------------------------------------------------
(* Claims C1-C4. *)

\* C1: density(x, mu, sigma) and cumulative(x, mu, sigma) called with sigma = 0 or
\* sigma < 0 fail with InvalidParameter, for every x and mu, instead of returning.
C1_NonPositiveSigmaRejected ==
    (call.fn \in { "density", "cumulative" } /\ call.args[3] <= 0)
        => call.outcome = "InvalidParameter"

\* C2: quantile(p, mu, sigma) returns a value only for 0 < p < 1; at p = 0 and at
\* p = 1 it fails with OutOfRange (no infinity is returned), and for any other p
\* outside (0, 1) it fails with InvalidParameter.
C2_QuantileDomainErrors ==
    call.fn = "quantile" =>
        LET p == call.args[1]
        IN  /\ (p = 0 \/ p = ProbScale) => call.outcome = "OutOfRange"
            /\ (p < 0 \/ p > ProbScale) => call.outcome = "InvalidParameter"
            /\ call.outcome = "returned" =>
                   (0 < p /\ p < ProbScale /\ call.result.kind # "inf")

\* C3: the acceptance probability p_accept = 1 - (cdf(lower_spec) + (1 -
\* cdf(upper_spec))) of the quality-control problem is cdf(upper_spec) -
\* cdf(lower_spec), and so is the same computation on any bounds lower <= upper.
C3_AcceptIsCdfDifference ==
    view.sub = "Quality Control" =>
        LET mu == w.target_diameter
            sigma == w.process_std
            Cdf(x) == NormCdf(x, mu, sigma).val
        IN  /\ view.p_accept = Cdf(view.upper_spec) - Cdf(view.lower_spec)
            /\ \A lower \in { view.lower_spec, mu, view.upper_spec } :
               \A upper \in { view.lower_spec, mu, view.upper_spec } :
                   lower <= upper =>
                       PAccept(lower, upper, mu, sigma) = Cdf(upper) - Cdf(lower)

\* C3's case: the quality-control problem with the tolerance slider moved, some
\* bolts accepted and some rejected.
C3_Witness ==
    /\ view.sub = "Quality Control"
    /\ w.tolerance # Sliders.tolerance.default
    /\ 0 < view.p_accept /\ view.p_accept < ProbScale

\* C4: given lower > upper, interval_probability swaps the bounds or fails with
\* InvalidRange; it never returns a negative probability.
C4_ReversedBoundsHandled ==
    (call.fn = "interval_probability" /\ call.args[1] > call.args[2]) =>
        /\ \/ call.outcome = "InvalidRange"
           \/ call.result = Finite(PAccept(call.args[2], call.args[1],
                                           call.args[3], call.args[4]))
        /\ call.outcome = "returned" => call.result.val >= 0

---------------------------------------------------------------------------
(* Claims C5-C10. *)

\* The mean and the standard deviation of the distribution the current branch
\* evaluates (the z-test evaluates the standard normal, in thousandths).
Distribution ==
    IF view.branch = "Interactive Explorer" THEN << w.mu, w.sigma >>
    ELSE IF view.sub = "Medical Diagnosis" THEN << w.mu_chol, w.sigma_chol >>
    ELSE IF view.sub = "Quality Control" THEN << w.target_diameter, w.process_std >>
    ELSE IF view.sub = "Financial Analysis" THEN << w.expected_return, w.volatility >>
    ELSE IF view.sub = "Educational Assessment" THEN << w.sat_mean, w.sat_std >>
    ELSE << 0, ZScale >>

\* C5: cumulative(mu, mu, sigma) is exactly 0.5 for every mu and sigma > 0; an
\* admission cutoff equal to the SAT mean gives a cutoff percentile of 50 and 50%
\* of students qualifying.
C5_HalfAtTheMean ==
    /\ NormCdf(Distribution[1], Distribution[1], Distribution[2]) = Finite(Half)
    /\ (view.sub = "Educational Assessment" /\ w.admission_cutoff = w.sat_mean) =>
           /\ view.percentile_cutoff = 50 * PctScale
           /\ view.prob_qualify = 50 * PctScale

\* C5's case: the cutoff slider and the mean slider at the same score, away from
\* the defaults.
C5_Witness ==
    /\ view.sub = "Educational Assessment"
    /\ w.admission_cutoff = w.sat_mean
    /\ w.sat_std # Sliders.sat_std.default

InUnit(p) == 0 <= p /\ p <= ProbScale

\* C6: every probability the script derives from the CDF lies in [0, 1], and
\* every percentage divided by 100 does, whatever the sliders are set to.
C6_ProbabilitiesInUnitInterval ==
    /\ view.sub = "Quality Control" =>
           /\ InUnit(view.p_reject_low) /\ InUnit(view.p_reject_high)
           /\ InUnit(view.p_reject_total) /\ InUnit(view.p_accept)
    /\ view.sub = "Financial Analysis" =>
           /\ InUnit(view.prob_loss) /\ InUnit(view.prob_double_digit)
           /\ InUnit(view.prob_large_loss)
    /\ view.sub = "Educational Assessment" =>
           InUnit(view.percentile_cutoff) /\ InUnit(view.prob_qualify)
    /\ view.sub = "One-sample z-test" => InUnit(view.p_value)

\* C6's case: a z-test whose two-tailed p-value is strictly inside (0, 1).
C6_Witness ==
    /\ view.sub = "One-sample z-test"
    /\ 0 < view.p_value /\ view.p_value < ProbScale

\* The density at the mean.
Peak == NormPdf(w.mu, 1, w.mu, w.sigma).val

\* C7, as claimed: the Maximum height the Interactive Explorer reports equals
\* density(mu, mu, sigma).
C7_MaxHeightIsPeak ==
    view.branch = "Interactive Explorer" => view.max_height = Peak

\* C7, amended: density(mu, mu, sigma) bounds the density at every sample; the
\* 1000 evenly spaced samples do not include mu, so Maximum height is the density
\* at the two samples nearest to mu, mu -+ 4*sigma/999, strictly below
\* density(mu, mu, sigma), by less than 1/100000 of it, and equal to it once both
\* are rounded to the three decimals displayed.
C7_MaxHeightJustBelowPeak ==
    view.branch = "Interactive Explorer" =>
        /\ \A i \in 1..NumSamples : YValue(w.mu, w.sigma, i) <= Peak
        /\ view.max_height = YValue(w.mu, w.sigma, NumSamples \div 2)
        /\ view.max_height = YValue(w.mu, w.sigma, NumSamples \div 2 + 1)
        /\ view.max_height < Peak
        /\ (Peak - view.max_height) * 100000 < Peak
        /\ Format3(view.max_height) = Format3(Peak)

\* C7's case: the Explorer with the narrowest curve, off centre.
C7_Witness ==
    /\ view.branch = "Interactive Explorer"
    /\ w.sigma = Sliders.sigma.min
    /\ w.mu # 0

\* C8: z_score is (sample_mean - claimed_mean) / standard_error; a sample mean
\* equal to the claimed mean gives z_score = 0 for every population_std and
\* sample_size, and the null hypothesis is then rejected at no offered alpha.
C8_StandardScore ==
    view.sub = "One-sample z-test" =>
        LET diff == w.sample_mean - w.claimed_mean
        IN  /\ 2 * Abs(view.z_score * view.standard_error - diff * ZScale * ZScale)
                   <= view.standard_error
            /\ diff = 0 =>
                   /\ view.z_score = 0
                   /\ ~view.reject_null
                   /\ \A a \in Alphas : ~RejectNull(view.z_score, ZCritical(a))

\* C8's case: the sample mean on the claimed mean, with the other sliders moved.
C8_Witness ==
    /\ view.sub = "One-sample z-test"
    /\ w.sample_mean = w.claimed_mean
    /\ w.population_std # Sliders.population_std.default
    /\ w.sample_size # Sliders.sample_size.default

\* C9: the 68%, 95% and 99.7% ranges are [mu - k*sigma, mu + k*sigma] with the
\* fixed multipliers k = 1, 2, 3 (the 95% range is the 2-sigma range, not the
\* range between the 2.5% and 97.5% quantiles); each is centred on mu and they
\* are strictly nested.
C9_EmpiricalRuleRanges ==
    /\ view.branch = "Interactive Explorer" =>
           LET r == << view.range68, view.range95, view.range997 >>
           IN  /\ \A k \in 1..3 : /\ r[k][1] = w.mu - k * w.sigma
                                  /\ r[k][2] = w.mu + k * w.sigma
                                  /\ r[k][1] + r[k][2] = 2 * w.mu
               /\ \A k \in 1..2 : r[k + 1][1] < r[k][1] /\ r[k][2] < r[k + 1][2]
               /\ r[1][1] < w.mu /\ w.mu < r[1][2]
               /\ r[2][2] * ZScale # NormPpf(975 * (ProbScale \div 1000), w.mu, w.sigma).val
    /\ view.sub = "Medical Diagnosis" =>
           /\ view.low_normal = w.mu_chol - 2 * w.sigma_chol
           /\ view.high_normal = w.mu_chol + 2 * w.sigma_chol
           /\ view.low_normal < w.mu_chol /\ w.mu_chol < view.high_normal

\* C9's case: the Explorer with both sliders at an end of their range.
C9_Witness ==
    /\ view.branch = "Interactive Explorer"
    /\ w.mu = Sliders.mu.min
    /\ w.sigma = Sliders.sigma.max

\* p within 1e-3 of n/10000.
Near(p, n) == Abs(p - n * (ProbScale \div 10000)) <= ProbScale \div 1000

\* C10: the probability of [mu - k*sigma, mu + k*sigma] does not depend on mu and
\* sigma and is 0.6827, 0.9545, 0.9973 for k = 1, 2, 3 within 1e-3; with the
\* cholesterol defaults the +-2 sigma reference range is [120, 260] and its
\* probability is 0.9545 within 1e-3.
C10_EmpiricalRuleProbabilities ==
    /\ view.branch = "Interactive Explorer" =>
           LET P(r) == PAccept(r[1], r[2], w.mu, w.sigma)
           IN  /\ P(view.range68) = PAccept(-1, 1, 0, 1) /\ Near(P(view.range68), 6827)
               /\ P(view.range95) = PAccept(-2, 2, 0, 1) /\ Near(P(view.range95), 9545)
               /\ P(view.range997) = PAccept(-3, 3, 0, 1) /\ Near(P(view.range997), 9973)
    /\ view.sub = "Medical Diagnosis" =>
           LET p == PAccept(view.low_normal, view.high_normal, w.mu_chol, w.sigma_chol)
           IN  /\ p = PAccept(-2, 2, 0, 1) /\ Near(p, 9545)
               /\ (w.mu_chol = 190 /\ w.sigma_chol = 35) =>
                      view.low_normal = 120 /\ view.high_normal = 260

\* C10's case: the cholesterol problem at its defaults, showing 120 - 260 mg/dL.
C10_Witness ==
    /\ view.sub = "Medical Diagnosis"
    /\ w.mu_chol = 190 /\ w.sigma_chol = 35
    /\ view.low_normal = 120 /\ view.high_normal = 260

---------------------------------------------------------------------------
(* Claims C11-C12. *)

\* The composition returned x: a finite value within half a thousandth of
\* sigma of x, the resolution of the standard score.
Recovered(c) ==
    /\ c.result.kind = "finite"
    /\ 2 * Abs(c.result.val - c.args[1] * ZScale) <= c.args[3]

---------------------------------------------------------------------------
(* Claims C13-C16. *)

\* The values a run computed: everything on the page but the static answers
\* text that the Show Answers button reveals.
Computed(v) == [ f \in (DOMAIN v) \ { "answers" } |-> v[f] ]

C14_CallersIsolated ==
    \A c \in Callers :
        (runs[c].pc = "idle" /\ runs[c].count > 0) =>
            /\ runs[c].values = ExplorerValues(runs[c].mu, runs[c].sigma)
            /\ runs[c].image = { Curve(runs[c].mu, runs[c].sigma) }

\* The names of the values each section's branch computes.
ValuesOf(sec, prob, test) ==
    IF sec = "Interactive Explorer" THEN
        { "mu", "sigma", "variance", "max_height", "range68", "range95", "range997",
          "comparison", "answers" }
    ELSE IF sec = "Problem Solving" /\ prob = "Medical Diagnosis" THEN
        { "low_normal", "high_normal", "borderline_high" }
    ELSE IF sec = "Problem Solving" /\ prob = "Quality Control" THEN
        { "lower_spec", "upper_spec", "p_reject_low", "p_reject_high", "p_reject_total",
          "p_accept", "good", "rejected", "capability" }
    ELSE IF sec = "Problem Solving" /\ prob = "Financial Analysis" THEN
        { "prob_loss", "prob_double_digit", "prob_large_loss", "var_5", "risk_return" }
    ELSE IF sec = "Problem Solving" THEN
        { "percentile_cutoff", "prob_qualify", "score_25th", "score_75th", "score_90th",
          "selectivity" }
    ELSE IF sec = "Hypothesis Testing" /\ test = "One-sample z-test" THEN
        { "standard_error", "z_score", "p_value", "z_critical", "reject_null" }
    ELSE {}

\* C15: on every render exactly one section branch executes, the one the sidebar
\* selection names; the values computed are those of that branch and no other,
\* the widgets of the other branches are not rendered (they hold no value but
\* their default), and the footer is rendered whatever the selection.
C15_SectionDispatch ==
    /\ section \in Sections
    /\ view.branch = section
    /\ DOMAIN view = { "branch", "sub", "footer" } \cup ValuesOf(section, problem_type, test_type)
    /\ \A n \in SliderNames \ SlidersOf(section, problem_type, test_type) : w[n] = Defaults[n]
    /\ view.footer

\* C15's case: the quality-control problem is on the page, with its values and
\* the footer and without the values of the Explorer.
C15_Witness ==
    /\ section = "Problem Solving" /\ problem_type = "Quality Control"
    /\ view.branch = "Problem Solving" /\ view.sub = "Quality Control"
    /\ "p_accept" \in DOMAIN view /\ "max_height" \notin DOMAIN view
    /\ view.footer

\* C16: every option of the hypothesis-test selector, when selected, renders an
\* example with computed test results.
C16_EveryTestRenders ==
    section = "Hypothesis Testing" =>
        /\ test_type \in TestTypes
        /\ view.sub = test_type
        /\ { "z_score", "p_value", "reject_null" } \subseteq DOMAIN view

---------------------------------------------------------------------------
(* Claims C17-C20. *)

\* C17: for every combination of slider and selectbox values reachable through
\* the UI, every standard-deviation argument passed to the density, the CDF or
\* the quantile function is strictly positive (at least the minimum of its
\* slider, or the literal 1), and every probability passed to the quantile
\* function is one of 0.05, 0.25, 0.75, 0.90 and 1 - alpha/2, strictly inside (0, 1).
C17_ArgumentsInDomain ==
    /\ \A s \in ScaleArgs(section, problem_type, test_type, w) : s > 0
    /\ \A q \in QuantileArgs(section, problem_type, test_type, w) :
           /\ 0 < q /\ q < ProbScale
           /\ q \in { Hundredths(5), Hundredths(25), Hundredths(75), Hundredths(90) }
                   \cup { ProbScale - (a * (ProbScale \div 1000)) \div 2 : a \in Alphas }
    /\ w.sigma >= 1 /\ w.sigma_chol >= 20 /\ w.process_std >= 5
    /\ w.volatility >= 5 /\ w.sat_std >= 80
    /\ w.alpha \in Alphas

\* C17's case: a standard-deviation slider stands at its minimum and the run
\* passed it to the library.
C17_Witness ==
    /\ view.sub = "Quality Control"
    /\ w.process_std = Sliders.process_std.min
    /\ ScaleArgs(section, problem_type, test_type, w) = { Sliders.process_std.min }

\* C18: no render divides by zero: the denominators volatility (risk-return
\* ratio), sqrt(sample_size) (standard error) and standard_error (z-score) are
\* strictly positive for every reachable slider setting.
C18_NoDivisionByZero ==
    /\ "error" \notin DOMAIN view
    /\ view.sub = "Financial Analysis" => w.volatility > 0
    /\ view.sub = "One-sample z-test" =>
           /\ Sqrt(w.sample_size) > 0
           /\ view.standard_error > 0

\* C18's case: the z-test with the smallest standard deviation and the largest
\* sample, the smallest standard error the sliders give (50 / 10 = 5).
C18_Witness ==
    /\ view.sub = "One-sample z-test"
    /\ w.population_std = Sliders.population_std.min
    /\ w.sample_size = Sliders.sample_size.max
    /\ view.standard_error = 5 * ZScale

\* C19: in the quality-control problem the daily-production counts shown for
\* 10,000 bolts, int(p_accept*10000) good and int(p_reject_total*10000)
\* rejected, sum to exactly 10,000 for every slider setting.
C19_BoltsSumToTenThousand ==
    view.sub = "Quality Control" => view.good + view.rejected = 10000

\* C20: in the quality-control problem, for every reachable setting of the
\* target, process std dev and tolerance sliders, lower_spec < target_diameter <
\* upper_spec strictly, the two rejection tails are equal (to the 1e-9 the
\* probabilities are computed at), p_accept is non-negative and
\* p_accept + p_reject_total = 1.
C20_QualityControlInvariants ==
    view.sub = "Quality Control" =>
        /\ view.lower_spec < w.target_diameter
        /\ w.target_diameter < view.upper_spec
        /\ view.p_reject_low = view.p_reject_high
        /\ view.p_reject_total = view.p_reject_low + view.p_reject_high
        /\ view.p_accept >= 0
        /\ view.p_accept + view.p_reject_total = ProbScale

\* C20's case: the narrowest tolerance with the widest process, off target:
\* both tails are large and p_accept is at its smallest.
C20_Witness ==
    /\ view.sub = "Quality Control"
    /\ w.tolerance = Sliders.tolerance.min
    /\ w.process_std = Sliders.process_std.max
    /\ w.target_diameter # Defaults.target_diameter
    /\ view.p_reject_low > 0
    /\ view.p_accept > 0 /\ view.p_accept < Half
---------------------------------------------------------------------------
(* Claims C21-C23. *)

\* alpha, a number of thousandths, as a probability in 1/ProbScale.
AlphaLevel(alpha) == alpha * (ProbScale \div ZScale)

\* C21: in the one-sample z-test the two decision rules agree for every slider
\* setting and every alpha: reject_null (|z_score| > z_critical) is true exactly
\* when the two-tailed p_value is below alpha.
C21_DecisionRulesAgree ==
    view.sub = "One-sample z-test" /\ "error" \notin DOMAIN view =>
        view.reject_null <=> (view.p_value < AlphaLevel(w.alpha))

\* C21's case: a sample the test rejects at alpha = 0.10 with a p_value
\* between 0.05 and 0.10, so that the level decides.
C21_Witness ==
    /\ view.sub = "One-sample z-test"
    /\ "error" \notin DOMAIN view
    /\ w.alpha = 100
    /\ view.reject_null
    /\ view.p_value > AlphaLevel(50)
    /\ view.p_value < AlphaLevel(100)

\* C22: in the educational-assessment problem exactly one selectivity level is
\* shown: 'Highly selective' when prob_qualify < 25, 'Moderately selective' when
\* 25 <= prob_qualify < 50, 'Less selective' when prob_qualify >= 50;
\* percentile_cutoff + prob_qualify = 100, so a cutoff at or below the mean is
\* always 'Less selective' and a cutoff above the mean never is.
C22_SelectivityLevel ==
    view.sub = "Educational Assessment" =>
        /\ view.selectivity = "Highly selective" <=> view.prob_qualify < 25 * PctScale
        /\ view.selectivity = "Moderately selective"
               <=> (25 * PctScale <= view.prob_qualify /\ view.prob_qualify < 50 * PctScale)
        /\ view.selectivity = "Less selective" <=> view.prob_qualify >= 50 * PctScale
        /\ view.percentile_cutoff + view.prob_qualify = 100 * PctScale
        /\ w.admission_cutoff <= w.sat_mean => view.selectivity = "Less selective"
        /\ w.admission_cutoff > w.sat_mean => view.selectivity # "Less selective"

\* C22's case: the cutoff moved onto the mean, where prob_qualify is 50 and the
\* level is on its threshold.
C22_Witness ==
    /\ view.sub = "Educational Assessment"
    /\ w.admission_cutoff = w.sat_mean
    /\ view.prob_qualify = 50 * PctScale
    /\ view.selectivity = "Less selective"

\* The positions of a slider, all of them.
Range(name) == Sliders[name].min .. Sliders[name].max

\* C23: in the quality-control problem the process capability is 'Good' exactly
\* when p_reject_total < 0.05 (strictly) and 'Needs improvement' otherwise; the
\* limits being symmetric about the target, the label is the same for every
\* target_diameter and for every tolerance and process_std of the same ratio.
C23_CapabilityLabel ==
    view.sub = "Quality Control" =>
        /\ view.capability = "Good" <=> view.p_reject_total < Hundredths(5)
        /\ view.capability = "Needs improvement" <=> view.p_reject_total >= Hundredths(5)
        /\ \A t \in Range("target_diameter") :
               QualityControl([w EXCEPT !.target_diameter = t]).capability = view.capability
        /\ \A s \in Range("process_std") : \A tol \in Range("tolerance") :
               tol * w.process_std = w.tolerance * s =>
                   QualityControl([w EXCEPT !.process_std = s, !.tolerance = tol]).capability
                       = view.capability

\* C23's case: the target moved off its default and the process widened, so
\* that the label is 'Needs improvement' at the default tolerance.
C23_Witness ==
    /\ view.sub = "Quality Control"
    /\ w.target_diameter # Defaults.target_diameter
    /\ w.process_std > Defaults.process_std
    /\ w.tolerance = Defaults.tolerance
    /\ view.capability = "Needs improvement"
    /\ QualityControl(Defaults).capability = "Good"

===========================================================================
